---- MODULE Spec2Model ----
(***************************************************************************)
(* Model of the Audible-Downloader repository: the key persistence and     *)
(* validation endpoints of app.py, the discovery orchestrator and its      *)
(* strategies (activation_extractor.py), the browser-automation strategy   *)
(* (selenium_activator.py), the upload/conversion and chunking handlers of *)
(* app.py and the stand-alone scripts get_activation_bytes.py and          *)
(* find_activation_bytes.py.                                               *)
(*                                                                         *)
(* Text is a sequence of one-character strings, so that upper(), strip()   *)
(* and len() are computed as Python computes them.  The value None and a   *)
(* missing file are one-element sequences holding a longer string: no text *)
(* equals them.                                                            *)
(***************************************************************************)
EXTENDS Integers, Sequences, FiniteSets, TLC

VARIABLES
  keyFile,    \* content of activation_bytes.txt in the working directory, or NoFile
  pc,         \* where the request in progress stands ("idle": none in progress)
  req,        \* the request in progress (endpoint and its inputs)
  resp,       \* the response returned to the caller, NoResponse until there is one
  result,     \* extract_activation_bytes: the local `result`
  idx,        \* extract(): index of the loop over `methods` (1-based)
  started,    \* history: the strategies invoked in this request, in order
  outcomes,   \* history: how each invoked strategy ended
  writes,     \* history: the values written to the key file in this request
  toolKeys,   \* history: the -activation_bytes arguments handed to ffprobe/ffmpeg
  probeCause, \* history: what the last validator run met
  cli,        \* method_1_audible_cli: the commands run so far and its local `result`
  api,        \* method_2_manual_auth: the remote calls made so far and its locals
  sel,        \* SeleniumActivationExtractor.extract_activation_bytes: its locals
  scan,       \* a file scan: found_bytes in iteration order, and the keys tested
  conv,       \* upload_file / convert_audible_file: temp dir and ffmpeg calls
  lastSave,   \* history: key of the save request that made the last write, or None
  split,      \* the chunking request: its temporary directory and split_audio_file
  workers,    \* uploads handled side by side: each handler's position and files
  outputDir   \* the output folder: per file name, the upload whose output it holds

vars == <<keyFile, pc, req, resp, result, idx, started, outcomes, writes, toolKeys,
          probeCause, cli, api, sel, scan, conv, lastSave, split, workers, outputDir>>

\* the state of the upload handlers that run side by side, and with it the
\* state of the chunking request
uploadVars == <<workers, outputDir>>
auxVars == <<split, workers, outputDir>>

----------------------------------------------------------------------------
(* Text                                                                    *)

None == <<"None">>
NoFile == <<"NoFile">>
EmptyStr == <<>>

KeyLen == 8

DigitChars == {"0", "1", "2", "3", "4", "5", "6", "7", "8", "9"}
LowerHexChars == {"a", "b", "c", "d", "e", "f"}
UpperHexChars == {"A", "B", "C", "D", "E", "F"}
HexChars == DigitChars \cup LowerHexChars \cup UpperHexChars
WhiteChars == {" ", "\n", "\t", "\r"}

LowerLetters ==
  <<"a", "b", "c", "d", "e", "f", "g", "h", "i", "j", "k", "l", "m",
    "n", "o", "p", "q", "r", "s", "t", "u", "v", "w", "x", "y", "z">>
UpperLetters ==
  <<"A", "B", "C", "D", "E", "F", "G", "H", "I", "J", "K", "L", "M",
    "N", "O", "P", "Q", "R", "S", "T", "U", "V", "W", "X", "Y", "Z">>

\* \w of Python's re for ASCII text
WordChars ==
  DigitChars \cup {LowerLetters[i] : i \in DOMAIN LowerLetters}
             \cup {UpperLetters[i] : i \in DOMAIN UpperLetters} \cup {"_"}

UpperChar(c) ==
  IF \E i \in DOMAIN LowerLetters : LowerLetters[i] = c
  THEN UpperLetters[CHOOSE i \in DOMAIN LowerLetters : LowerLetters[i] = c]
  ELSE c

\* str.upper()
Upper(s) == [i \in DOMAIN s |-> UpperChar(s[i])]

\* str.lstrip() / str.rstrip() / str.strip()
RECURSIVE LStrip(_)
LStrip(s) == IF s # <<>> /\ Head(s) \in WhiteChars THEN LStrip(Tail(s)) ELSE s

RECURSIVE RStrip(_)
RStrip(s) ==
  IF s # <<>> /\ s[Len(s)] \in WhiteChars THEN RStrip(SubSeq(s, 1, Len(s) - 1)) ELSE s

Strip(s) == RStrip(LStrip(s))

\* Python truthiness of an optional string: None and "" are falsy
Truthy(v) == v # None /\ v # EmptyStr

AllHex(s) == \A i \in DOMAIN s : s[i] \in HexChars

\* the key format of the specification: 8 characters of [0-9A-Fa-f]
IsValidKey(v) == v # None /\ Len(v) = KeyLen /\ AllHex(v)

\* ... normalised: 8 characters of [0-9A-F]
IsUpperHexKey(v) ==
  v # None /\ Len(v) = KeyLen /\ \A i \in DOMAIN v : v[i] \in DigitChars \cup UpperHexChars

\* re.search(r'\b([0-9A-Fa-f]{8})\b', output): the first 8-hex-digit token, or None
HexTokenAt(s, i) ==
  /\ i + KeyLen - 1 <= Len(s)
  /\ \A j \in i .. (i + KeyLen - 1) : s[j] \in HexChars
  /\ (i = 1 \/ s[i - 1] \notin WordChars)
  /\ (i + KeyLen - 1 = Len(s) \/ s[i + KeyLen] \notin WordChars)

SearchHexToken(s) ==
  LET hits == {i \in DOMAIN s : HexTokenAt(s, i)}
  IN IF hits = {} THEN None
     ELSE LET first == CHOOSE i \in hits : \A j \in hits : i <= j
          IN SubSeq(s, first, first + KeyLen - 1)

----------------------------------------------------------------------------
(* Inputs                                                                  *)

KLower == <<"1", "a", "2", "b", "3", "c", "4", "d">>
KUpper == <<"D", "E", "A", "D", "B", "E", "E", "F">>
KSeven == <<"D", "E", "A", "D", "B", "E", "E">>
KNonHex == <<"z", "z", "z", "z", "z", "z", "z", "z">>
KPadded == <<" ", "1", "a", "2", "b", "3", "c", "4">>

\* what a caller may send as "activation_bytes"
CandidateInputs == {None, EmptyStr, KLower, KUpper, KSeven, KNonHex, KPadded}


\* what a person may type at a prompt of the scripts (input() returns text)
TypedInputs == CandidateInputs \ {None}

OutPlain == KLower \o <<"\n">>
OutLabelled == <<"k", "e", "y", ":", " ">> \o KLower \o <<"\n">>
OutTwoTokens == KUpper \o <<" ">> \o KLower
OutNineDigits == KLower \o <<"5">>
OutNoToken == <<"n", "o", "n", "e">>

\* what `audible_cli activation-bytes` may print on stdout
CliOutputs == {EmptyStr, OutPlain, OutLabelled, OutTwoTokens, OutNineDigits, OutNoToken}

\* how a child process may end: exit status 0, another status, or subprocess.run
\* raising (executable missing, TimeoutExpired)
ProcEnds == {"exit0", "exit_nonzero", "raised"}

\* what the validator may meet: no .aax file in the searched directories, or
\* one of the ways the ffprobe child process may end
ProbeEnvs == {"no_aax"} \cup ProcEnds

----------------------------------------------------------------------------
(* Responses                                                               *)

Response(status, success, key, msg) ==
  [status |-> status, success |-> success, key |-> key, msg |-> msg,
   suggestions |-> <<>>]

NoResponse == Response(0, FALSE, None, "")

Endpoints == {"none", "extract", "test", "save", "load", "upload", "script", "chunk"}

NoRequest ==
  [endpoint |-> "none", method |-> "", via |-> "", key |-> None, email |-> FALSE,
   password |-> FALSE, debug |-> FALSE, file |-> ""]

Request(endpoint, method, key) ==
  [NoRequest EXCEPT !.endpoint = endpoint, !.method = method, !.key = key]

----------------------------------------------------------------------------
(* Key Validator: ActivationBytesExtractor.test_activation_bytes           *)

\* ffprobe is run with the candidate whenever an .aax file was found
ProbeInvoked(env) == env # "no_aax"

\* the value test_activation_bytes returns
ValidatorReturns(env) ==
  CASE env = "no_aax" -> FALSE        \* "No .aax files found for testing"
    [] env = "exit0" -> TRUE
    [] env = "exit_nonzero" -> FALSE
    [] OTHER -> FALSE                 \* except Exception: return False

ProbedKeys(key, env) == IF ProbeInvoked(env) THEN {key} ELSE {}

----------------------------------------------------------------------------
(* Key Persistence                                                         *)

\* line 637 without .upper()
SavedTextAsGiven(key) == key

\* the text save_activation_bytes_endpoint writes for a key that passed its checks
SavedText(key) == Upper(key)

\* save_activation_bytes_endpoint with the file opened for writing ahead of the
\* length check: a rejected request leaves it truncated
SaveHandlerOpensFirst(key, file) ==
  IF ~Truthy(key)
  THEN [resp |-> Response(400, FALSE, None, "activation_bytes required"), file |-> file]
  ELSE IF Len(key) # KeyLen
  THEN [resp |-> Response(400, FALSE, None, "Activation bytes must be 8 characters long"),
        file |-> EmptyStr]
  ELSE [resp |-> Response(200, TRUE, None, "Activation bytes saved"),
        file |-> SavedText(key)]

\* save_activation_bytes_endpoint: [resp, file] for the current file content
SaveHandler(key, file) ==
  IF ~Truthy(key)
  THEN [resp |-> Response(400, FALSE, None, "activation_bytes required"), file |-> file]
  ELSE IF Len(key) # KeyLen
  THEN [resp |-> Response(400, FALSE, None, "Activation bytes must be 8 characters long"),
        file |-> file]
  ELSE [resp |-> Response(200, TRUE, None, "Activation bytes saved"),
        file |-> SavedText(key)]

\* line 731 without the length check
LoadAcceptsAnything(text) == TRUE

\* the value load_activation_bytes_endpoint takes as usable
LoadAccepts(text) == Len(text) = KeyLen

\* load_activation_bytes_endpoint
LoadHandler(file) ==
  IF file # NoFile
  THEN LET activation_bytes == Strip(file)
       IN IF LoadAccepts(activation_bytes)
          THEN Response(200, TRUE, activation_bytes, "Activation bytes loaded from file")
          ELSE Response(400, FALSE, None, "Invalid activation bytes in file")
  ELSE Response(404, FALSE, None, "No saved activation bytes found")

\* test_activation_bytes_endpoint
TestHandler(key, env) ==
  IF ~Truthy(key)
  THEN Response(400, FALSE, None, "activation_bytes required")
  ELSE IF Len(key) # KeyLen
  THEN Response(400, FALSE, None, "Activation bytes must be 8 characters long")
  ELSE LET success == ValidatorReturns(env)
       IN Response(200, success, Upper(key),
                   IF success THEN "Activation bytes work!"
                   ELSE "Could not verify activation bytes (no .aax files found for testing)")

\* whether test_activation_bytes_endpoint reaches the validator
TestValidates(key) == Truthy(key) /\ Len(key) = KeyLen

----------------------------------------------------------------------------
(* State                                                                   *)

NoSel ==
  [debug |-> FALSE, opened |-> FALSE, quits |-> 0, onTokenPage |-> FALSE,
   reBound |-> FALSE, landing |-> None, ret |-> None, msg |-> "", via |-> "",
   runs |-> 0, libNavs |-> 0, libPage |-> [field |-> None, quoted |-> <<>>]]
NoScan == [found |-> <<>>, pos |-> 0, tests |-> <<>>]
NoConv == [tmp |-> FALSE, made |-> FALSE, calls |-> <<>>, fb |-> 0, timedOut |-> FALSE]

\* method_2_manual_auth: the remote calls it has made (kept for the record of
\* the request) and, while the method is running, its locals: the key held by
\* the session object, the replies to the profile and the library call, and
\* the value it is about to return
Reply(ok, val) == [called |-> TRUE, ok |-> ok, val |-> val]
NoReply == [called |-> FALSE, ok |-> FALSE, val |-> None]
NoApi ==
  [calls |-> <<>>, session |-> None, profile |-> NoReply, library |-> NoReply,
   ret |-> None]

\* method_1_audible_cli: the commands it has run (kept for the record of the
\* request) and its local `result`, the outcome of the last subprocess.run
\* while the method is running
CliResult(end, stdout) == [end |-> end, out |-> stdout]
NoResult == CliResult("none", EmptyStr)
NoCli == [cmds |-> <<>>, result |-> NoResult]
NoSplit ==
  [tmp |-> FALSE, made |-> FALSE, size |-> 0, total |-> 0, step |-> 0, start |-> 0,
   chunks |-> <<>>, starts |-> <<>>]
NoName == <<>>
NoWorker ==
  [pc |-> "idle", file |-> "", fmt |-> "", tmp |-> 0, final |-> NoName, url |-> NoName]

\* the uploads one server may be handling at a time
NumUploads == 2
Uploads == 1 .. NumUploads

\* the names uploaded files carry, and the output formats (line 421)
UploadNames == {"book.aax", "book.aa", "tale.aax"}
Formats == {"mp3", "m4b"}

\* os.path.splitext(filename)[0]
BaseName(f) == IF f = "tale.aax" THEN "tale" ELSE "book"

\* line 429: final_filename, the base name and the format
FinalName(f, fmt) == <<BaseName(f), fmt>>
OutputNames == {FinalName(f, fmt) : f \in UploadNames, fmt \in Formats}

Init ==
  /\ keyFile = NoFile
  /\ pc = "idle"
  /\ req = NoRequest
  /\ resp = NoResponse
  /\ result = None
  /\ idx = 0
  /\ started = <<>>
  /\ outcomes = <<>>
  /\ writes = <<>>
  /\ toolKeys = {}
  /\ probeCause = "none"
  /\ cli = NoCli
  /\ api = NoApi
  /\ sel = NoSel
  /\ scan = NoScan
  /\ conv = NoConv
  /\ lastSave = None
  /\ split = NoSplit
  /\ workers = [w \in Uploads |-> NoWorker]
  /\ outputDir = [n \in OutputNames |-> 0]

\* a request is accepted when none is in progress
Ready == pc = "idle"

\* the request-local state at the start of a request
FreshFlow ==
  /\ result' = None
  /\ outcomes' = <<>>
  /\ cli' = NoCli
  /\ api' = NoApi
  /\ sel' = NoSel
  /\ scan' = NoScan

FreshOrch ==
  /\ idx' = 0
  /\ started' = <<>>
  /\ conv' = NoConv

FreshRequest ==
  /\ FreshFlow
  /\ FreshOrch
  /\ writes' = <<>>
  /\ toolKeys' = {}
  /\ probeCause' = "none"

\* app.run: the response has gone out and the server waits for the next
\* request (a script has exited); nothing of the request is left but the key file
Served ==
  /\ split' = NoSplit
  /\ UNCHANGED uploadVars
  /\ pc = "done"
  /\ pc' = "idle"
  /\ req' = NoRequest
  /\ resp' = NoResponse
  /\ FreshRequest
  /\ UNCHANGED <<keyFile, lastSave>>

----------------------------------------------------------------------------
(* app.py: the persistence and test endpoints (each handler is one step)   *)

SaveRequest ==
  /\ UNCHANGED auxVars
  /\ Ready
  /\ \E key \in CandidateInputs :
       LET out == SaveHandler(key, keyFile)
       IN /\ FreshFlow
          /\ FreshOrch
          /\ toolKeys' = {}
          /\ probeCause' = "none"
          /\ req' = Request("save", "", key)
          /\ resp' = out.resp
          /\ keyFile' = out.file
          /\ writes' = IF out.resp.success THEN <<out.file>> ELSE <<>>
          /\ lastSave' = IF out.resp.success THEN key ELSE lastSave
          /\ pc' = "done"

LoadRequest ==
  /\ UNCHANGED auxVars
  /\ Ready
  /\ FreshRequest
  /\ req' = Request("load", "", None)
  /\ resp' = LoadHandler(keyFile)
  /\ pc' = "done"
  /\ UNCHANGED <<keyFile, lastSave>>

TestRequest ==
  /\ UNCHANGED auxVars
  /\ Ready \/ (pc = "done" /\ req.endpoint = "test")
  /\ \E key \in CandidateInputs, env \in ProbeEnvs :
       \* the endpoint may be called again as soon as it has answered
       /\ req' = Request("test", "", key)
       /\ resp' = TestHandler(key, env)
       /\ toolKeys' = IF TestValidates(key) THEN ProbedKeys(key, env) ELSE {}
       /\ probeCause' = IF TestValidates(key) THEN env ELSE "none"
       /\ FreshFlow
       /\ FreshOrch
       /\ writes' = <<>>
       /\ pc' = "done"
       /\ UNCHANGED <<keyFile, lastSave>>

----------------------------------------------------------------------------
(* get_activation_bytes.py, run from the command line                      *)

\* method1_manual_input
Method1ManualInput(typed) ==
  LET activation_bytes == Strip(typed)
  IN IF Truthy(activation_bytes) /\ Len(activation_bytes) = KeyLen /\ AllHex(activation_bytes)
     THEN Upper(activation_bytes)
     ELSE None

\* method2_browser_instructions, the person having answered "y"
Method2BrowserInstructions(typed) ==
  LET activation_bytes == Strip(typed)
  IN IF Truthy(activation_bytes) /\ Len(activation_bytes) = KeyLen
     THEN Upper(activation_bytes)
     ELSE None

\* method3_audible_cli_setup, the person having answered "y" twice
Method3AudibleCliSetup(end, stdout) ==
  IF end = "exit0" THEN Strip(stdout) ELSE None

\* main(): the first method with a truthy result wins (method4_file_search
\* only prints and returns None)
ScriptResult(r1, r2, r3) ==
  IF Truthy(r1) THEN r1 ELSE IF Truthy(r2) THEN r2 ELSE IF Truthy(r3) THEN r3 ELSE None

\* main() and save_activation_bytes of get_activation_bytes.py
GetActivationBytesMain ==
  /\ UNCHANGED auxVars
  /\ Ready
  /\ \E t1 \in TypedInputs, t2 \in TypedInputs \cup {None},
        end \in ProcEnds \cup {"declined"}, stdout \in CliOutputs :
       LET r1 == Method1ManualInput(t1)
           r2 == IF t2 = None THEN None ELSE Method2BrowserInstructions(t2)
           r3 == IF end = "declined" THEN None ELSE Method3AudibleCliSetup(end, stdout)
           activation_bytes == ScriptResult(r1, r2, r3)
          \* a method is run only when the earlier ones gave nothing
       IN /\ Truthy(r1) => t2 = None
          /\ Truthy(r1) \/ Truthy(r2) => end = "declined"
          /\ end # "exit0" => stdout = EmptyStr
          /\ FreshFlow
          /\ FreshOrch
          /\ toolKeys' = {}
          /\ probeCause' = "none"
          /\ req' = Request("script", "get_activation_bytes", None)
          /\ resp' = NoResponse
          /\ IF Truthy(activation_bytes)
             THEN /\ keyFile' = activation_bytes
                  /\ writes' = <<activation_bytes>>
                  /\ lastSave' = None
             ELSE /\ writes' = <<>>
                  /\ UNCHANGED <<keyFile, lastSave>>
          /\ pc' = "done"

----------------------------------------------------------------------------
(* Discovery: app.py extract_activation_bytes and                          *)
(* ActivationBytesExtractor.extract                                        *)

\* extract(): the list `methods`
Order == <<"cli", "auth", "selenium", "file", "manual">>

\* where each strategy begins
Entry(name) ==
  CASE name = "cli" -> "m1_probe"
    [] name = "auth" -> "m2_login"
    [] name = "selenium" -> "sel_setup"
    [] name = "file" -> "m3_scan"
    [] OTHER -> "m4_prompt"

\* extract() with the methods of lines 342-343 entered as plain methods
NeedsCredentialsNever(name) == FALSE

\* `email and password`: the credential-requiring entries of `methods`
NeedsCredentials(name) == name \in {"auth", "selenium"}
HasCredentials(r) == r.email /\ r.password

\* extract_activation_bytes, lines 534-539: 'suggestions'
Suggestions == <<"provide_credentials", "browser_method", "aa_files", "external_tools">>

\* extract_activation_bytes with the failure answer of lines 531-540 cut down
\* to its error
ExtractResponseBare(res) ==
  IF Truthy(res)
  THEN Response(200, TRUE, res, "Activation bytes extracted successfully")
  ELSE Response(400, FALSE, None,
                "Could not extract activation bytes using any available method")

\* extract_activation_bytes: the response for the final `result`
ExtractResponse(res) ==
  IF Truthy(res)
  THEN Response(200, TRUE, res, "Activation bytes extracted successfully")
  ELSE [Response(400, FALSE, None,
                 "Could not extract activation bytes using any available method")
          EXCEPT !.suggestions = Suggestions]

\* extract_activation_bytes: `except Exception` of the handler
ExtractFailed == Response(500, FALSE, None, "Extraction failed")

\* ActivationBytesExtractor.save_activation_bytes: the text written to the key
\* file (the same text goes to a copy under the home directory, which no
\* operation reads)
ExtractorSaves(activation_bytes) == Truthy(activation_bytes)

\* extract() without the `return result` of line 360
OrchStopsOnInterruptOnly(kind, val) == kind = "interrupt"

\* extract(): whether the loop stops after a strategy ended with (kind, val):
\* a truthy result is saved and returned, KeyboardInterrupt returns None
OrchStops(kind, val) == (kind = "value" /\ Truthy(val)) \/ kind = "interrupt"

\* extract() without the `except Exception` clause of lines 366-368
OrchCatchesInterruptOnly(kind) == kind = "interrupt"

\* extract(), lines 363-368: what leaves a strategy and is caught by the loop
OrchCatches(kind) == kind \in {"raise", "interrupt"}

\* extract(): what it returns when it stops there
OrchReturns(kind, val) == IF kind = "value" THEN val ELSE None

\* extract(): whether the result of a strategy is saved
OrchSaves(kind, val) == kind = "value" /\ Truthy(val) /\ ExtractorSaves(val)

\* A strategy ends with (kind, val): kind "value" (it returned val), "raise"
\* (an Exception left it) or "interrupt" (KeyboardInterrupt).  In auto mode
\* control is back in the loop of extract(); with an explicit selector it is
\* back in the handler.
StrategyEnds(name, kind, val) ==
  /\ outcomes' = Append(outcomes, [name |-> name, kind |-> kind, val |-> val])
  /\ IF req.via = "auto"
     THEN IF kind # "value" /\ ~OrchCatches(kind)
          THEN \* it leaves extract() and `except Exception` of the handler answers
               /\ result' = None
               /\ resp' = ExtractFailed
               /\ pc' = "done"
               /\ UNCHANGED <<keyFile, writes, lastSave, idx>>
          ELSE IF OrchStops(kind, val)
          THEN LET r == OrchReturns(kind, val)
               IN /\ result' = r
                  /\ resp' = ExtractResponse(r)
                  /\ pc' = "done"
                  /\ IF OrchSaves(kind, val)
                     THEN /\ keyFile' = val
                          /\ writes' = Append(writes, val)
                          /\ lastSave' = None
                     ELSE UNCHANGED <<keyFile, writes, lastSave>>
                  /\ UNCHANGED idx
          ELSE /\ idx' = idx + 1
               /\ pc' = "orch"
               /\ UNCHANGED <<result, resp, keyFile, writes, lastSave>>
     ELSE \* lines 497-506 and 524-543: the handler keeps the result of the
          \* selected method and answers; it writes nothing
          /\ result' = IF kind = "value" THEN val ELSE None
          /\ resp' = IF kind = "value" THEN ExtractResponse(val) ELSE ExtractFailed
          /\ pc' = "done"
          /\ UNCHANGED <<keyFile, writes, lastSave, idx>>

Methods == {"auto", "cli", "auth", "selenium", "file", "manual", "other"}

\* extract_activation_bytes, lines 497-522: the branch taken
Branch(method, email, password) ==
  CASE method = "cli" -> "cli"
    [] method = "auth" /\ email /\ password -> "auth"
    [] method = "selenium" /\ email /\ password -> "selenium"
    [] method = "file" -> "file"
    [] method = "manual" -> "manual"
    [] OTHER -> "auto"

\* extract_activation_bytes, lines 507-519: whether the manual branch takes the key
ManualAccepts(key) == Truthy(key) /\ Len(key) = KeyLen

\* lines 510-516 with the `else` arm discarding the key
ManualResultVerifiedOnly(key, verified) == IF verified THEN Upper(key) ELSE None

\* extract_activation_bytes, lines 510-516: `result` of the manual branch, for
\* what test_activation_bytes returned
ManualResult(key, verified) == Upper(key)

\* a discovery request with an explicit strategy, or in auto mode
ExtractRequest ==
  /\ UNCHANGED auxVars
  /\ Ready
  /\ \E method \in Methods \ {"manual"}, email \in BOOLEAN, password \in BOOLEAN,
        debug \in BOOLEAN :
       LET branch == Branch(method, email, password)
       IN /\ debug => method = "selenium"
          /\ FreshFlow
          /\ conv' = NoConv
          /\ writes' = <<>>
          /\ toolKeys' = {}
          /\ probeCause' = "none"
          /\ req' = [Request("extract", method, None) EXCEPT
                       !.email = email, !.password = password, !.debug = debug,
                       !.via = IF branch = "auto" THEN "auto" ELSE "single"]
          /\ resp' = NoResponse
          /\ IF branch = "auto"
             THEN /\ pc' = "orch"
                  /\ idx' = 1
                  /\ started' = <<>>
             ELSE /\ pc' = Entry(branch)
                  /\ idx' = 0
                  /\ started' = <<branch>>
          /\ UNCHANGED <<keyFile, lastSave>>

\* extract_activation_bytes, method "manual" (lines 507-519)
ManualEntryRequest ==
  /\ UNCHANGED auxVars
  /\ Ready \/ (pc = "done" /\ req.endpoint = "extract" /\ req.method = "manual")
  /\ \E key \in CandidateInputs, env \in ProbeEnvs :
       \* the endpoint may be called again as soon as it has answered
       /\ FreshFlow
       /\ FreshOrch
       /\ req' = [Request("extract", "manual", key) EXCEPT !.via = "single"]
       /\ IF ManualAccepts(key)
          THEN \* both arms of `if extractor.test_activation_bytes(...)` upper-case
               \* the key and save it
               LET res == ManualResult(key, ValidatorReturns(env))
               IN /\ toolKeys' = ProbedKeys(key, env)
                  /\ probeCause' = env
                  /\ resp' = ExtractResponse(res)
                  /\ IF ExtractorSaves(res)
                     THEN /\ keyFile' = res
                          /\ writes' = <<res>>
                          /\ lastSave' = None
                     ELSE /\ writes' = <<>>
                          /\ UNCHANGED <<keyFile, lastSave>>
          ELSE /\ toolKeys' = {}
               /\ writes' = <<>>
               /\ probeCause' = "none"
               /\ resp' = Response(400, FALSE, None,
                    "Invalid activation bytes format. Must be 8 hexadecimal characters.")
               /\ UNCHANGED <<keyFile, lastSave>>
       /\ pc' = "done"

\* extract(): one turn of `for i, method in enumerate(methods, 1)`
OrchNext ==
  /\ UNCHANGED auxVars
  /\ pc = "orch"
  /\ IF idx > Len(Order)
     THEN \* lines 369-375, then the handler's `else` answer
          /\ result' = None
          /\ resp' = ExtractResponse(None)
          /\ pc' = "done"
          /\ UNCHANGED <<idx, started>>
     ELSE IF NeedsCredentials(Order[idx]) /\ ~HasCredentials(req)
     THEN \* the lambda yields None without calling the method
          /\ idx' = idx + 1
          /\ UNCHANGED <<pc, result, resp, started>>
     ELSE /\ started' = Append(started, Order[idx])
          /\ pc' = Entry(Order[idx])
          /\ UNCHANGED <<idx, result, resp>>
  /\ UNCHANGED <<keyFile, req, outcomes, writes, toolKeys, probeCause, cli, api, sel,
                 scan, conv, lastSave>>

----------------------------------------------------------------------------
(* CLI-tool strategy: ActivationBytesExtractor.method_1_audible_cli        *)

\* lines 45-56 with the check of the exit status left out
CliKeyAnyExit(end, stdout) ==
  LET hex_match == SearchHexToken(Strip(stdout))
  IN IF hex_match # None THEN Upper(hex_match) ELSE None

\* lines 45-56: the key taken from the output of the retrieval command
CliKey(end, stdout) ==
  IF end = "exit0"
  THEN LET hex_match == SearchHexToken(Strip(stdout))
       IN IF hex_match # None THEN Upper(hex_match) ELSE None
  ELSE None

\* the commands run so far
CliCmds == cli.cmds

\* how `audible_cli activation-bytes` may end and what it then leaves on
\* stdout: any output with status 0, the key printed ahead of a failure, and
\* no result at all when subprocess.run raised
CliRuns ==
  {<<"exit0", out>> : out \in CliOutputs}
    \cup {<<"exit_nonzero", OutPlain>>, <<"raised", EmptyStr>>}

\* lines 33-37: `audible_cli --version`; on a failure the method returns
\* and its locals are gone
M1Probe ==
  /\ UNCHANGED auxVars
  /\ pc = "m1_probe"
  /\ \E end \in ProcEnds :
       /\ IF end = "exit0"
          THEN /\ cli' = [cmds |-> Append(cli.cmds, "version"),
                          result |-> CliResult(end, EmptyStr)]
               /\ pc' = "m1_get"
               /\ UNCHANGED <<keyFile, resp, result, idx, outcomes, writes, lastSave>>
          ELSE /\ cli' = [cmds |-> Append(cli.cmds, "version"), result |-> NoResult]
               /\ StrategyEnds("cli", "value", None)
       /\ UNCHANGED <<req, started, toolKeys, probeCause, api, sel, scan, conv>>

\* lines 42-43: `audible_cli activation-bytes`, its outcome in `result`
M1Get ==
  /\ UNCHANGED auxVars
  /\ pc = "m1_get"
  /\ \E run \in CliRuns :
       /\ cli' = [cmds |-> Append(cli.cmds, "activation-bytes"),
                  result |-> CliResult(run[1], run[2])]
       /\ pc' = "m1_parse"
       /\ UNCHANGED <<keyFile, resp, result, idx, outcomes, writes, lastSave>>
       /\ UNCHANGED <<req, started, toolKeys, probeCause, api, sel, scan, conv>>

\* lines 45-63: the key is taken from the output and the method returns
M1Parse ==
  /\ UNCHANGED auxVars
  /\ pc = "m1_parse"
  /\ cli' = [cli EXCEPT !.result = NoResult]
  /\ StrategyEnds("cli", "value", CliKey(cli.result.end, cli.result.out))
  /\ UNCHANGED <<req, started, toolKeys, probeCause, api, sel, scan, conv>>

----------------------------------------------------------------------------
(* Account-API strategy: ActivationBytesExtractor.method_2_manual_auth     *)

\* what the remote API may carry under `activation_bytes`: nothing, or a value
\* in whatever form the service uses
ApiValues == {None, KLower, KUpper}

\* lines 105-112 with the `except: pass` of lines 111-112 left out: a failure
\* of the profile call leaves for line 131 and the method returns None
ProfileErrorUncaught(ok) == ~ok

\* lines 105-112: whether a failure of the profile call leaves the inner try
\* block; the bare `except` of line 111 catches it
ProfileErrorEscapes(ok) == FALSE

\* lines 86-99: login, then the session object
M2Login ==
  /\ UNCHANGED auxVars
  /\ pc = "m2_login"
  /\ \E login \in {"import_error", "auth_failed", "ok"}, v \in ApiValues :
       /\ login # "ok" => v = None
       /\ IF login # "ok"
          THEN /\ api' = [api EXCEPT !.calls = IF login = "import_error" THEN @
                                                ELSE Append(@, "login")]
               /\ StrategyEnds("auth", "value", None)
          ELSE /\ api' = [api EXCEPT !.calls = Append(@, "login"), !.session = v,
                                     !.ret = IF Truthy(v) THEN v ELSE None]
               /\ pc' = IF Truthy(v) THEN "m2_ret" ELSE "m2_profile"
               /\ UNCHANGED <<keyFile, resp, result, idx, outcomes, writes, lastSave>>
       /\ UNCHANGED <<req, started, toolKeys, probeCause, cli, sel, scan, conv>>

\* lines 105-112: the profile call; a failure is swallowed
M2Profile ==
  /\ UNCHANGED auxVars
  /\ pc = "m2_profile"
  /\ \E ok \in BOOLEAN, v \in ApiValues :
       /\ ~ok => v = None
       /\ api' = [api EXCEPT !.calls = Append(@, "profile"), !.profile = Reply(ok, v),
                             !.ret = IF ok THEN v ELSE None]
       /\ pc' = IF (ok /\ v # None) \/ ProfileErrorEscapes(ok) THEN "m2_ret"
                ELSE "m2_library"
       /\ UNCHANGED <<keyFile, resp, result, idx, outcomes, writes, lastSave>>
       /\ UNCHANGED <<req, started, toolKeys, probeCause, cli, sel, scan, conv>>

\* lines 115-124: the library call; a failure is swallowed
M2Library ==
  /\ UNCHANGED auxVars
  /\ pc = "m2_library"
  /\ \E ok \in BOOLEAN, v \in ApiValues :
       /\ ~ok => v = None
       /\ api' = [api EXCEPT !.calls = Append(@, "library"), !.library = Reply(ok, v),
                             !.ret = IF ok THEN v ELSE None]
       /\ pc' = "m2_ret"
       /\ UNCHANGED <<keyFile, resp, result, idx, outcomes, writes, lastSave>>
       /\ UNCHANGED <<req, started, toolKeys, probeCause, cli, sel, scan, conv>>

\* lines 99, 110, 122 and 137: the method returns and its locals are gone
M2Return ==
  /\ UNCHANGED auxVars
  /\ pc = "m2_ret"
  /\ api' = [NoApi EXCEPT !.calls = api.calls]
  /\ StrategyEnds("auth", "value", api.ret)
  /\ UNCHANGED <<req, started, toolKeys, probeCause, cli, sel, scan, conv>>

----------------------------------------------------------------------------
(* Browser-automation strategy:                                            *)
(* SeleniumActivationExtractor.extract_activation_bytes, called by         *)
(* ActivationBytesExtractor.method_2b_selenium_auth                        *)

MsgDeps == "Selenium is not installed"
MsgDriver == "Failed to initialize WebDriver"
MsgExtractionFailed == "Extraction failed"
MsgLoginAutomation == "Login automation failed"
MsgCaptcha == "CAPTCHA detected. Please try again later or use debug mode."
MsgTwoFactor == "Two-factor authentication detected. Please use debug mode for manual verification."
MsgLoginFailed == "Login failed. Please check your credentials."
MsgManualTimeout == "Timed out waiting for manual login"
MsgSuccess == "Success"
MsgPotential == "Success (potential match)"
MsgCouldNot == "Could not extract activation bytes"

\* method_2b_selenium_auth, line 157: "captcha" in message.lower() or
\* "2fa" in message.lower()
MentionsChallenge(msg) == msg = MsgCaptcha

\* A page source, as far as the two scans read it: `field` is the group that
\* json_pattern captures (None when the pattern does not match), `quoted` the
\* groups script_pattern finds, in page order.
Page(field, quoted) == [field |-> field, quoted |-> quoted]
Pages ==
  {Page(None, <<>>), Page(None, <<KLower>>), Page(KLower, <<KLower>>),
   Page(None, <<KUpper, KLower>>)}

\* lines 236-254: the scan of the player-auth-token page
LandingScan(page) ==
  IF page.field # None THEN [key |-> Upper(page.field), msg |-> MsgSuccess]
  ELSE IF page.quoted # <<>> THEN [key |-> Upper(page.quoted[1]), msg |-> MsgPotential]
  ELSE [key |-> None, msg |-> ""]

\* lines 268-275: the scan of the library page
LibraryScan(page) ==
  IF page.field # None THEN [key |-> Upper(page.field), msg |-> MsgSuccess]
  ELSE [key |-> None, msg |-> ""]

\* a `return key, msg` (or a caught exception) inside the try block: the
\* finally clause runs next (`via` names the exit taken, for the record)
SelExit(s, via, key, msg) == [s EXCEPT !.ret = key, !.msg = msg, !.via = via]

\* lines 176-179 with the manual-login timeout as it would run were
\* TimeoutException imported: driver.quit() and the timeout message
DebugWaitHandled(s) ==
  [SelExit(s, "manual_timeout", None, MsgManualTimeout) EXCEPT !.quits = @ + 1]

\* lines 171-179, the wait for the manual login having timed out: the module
\* never imports TimeoutException (lines 19-32), so evaluating the clause
\* `except TimeoutException` raises NameError, the handler's body does not
\* run, and `except Exception` at line 282 answers
DebugWaitTimedOut(s) == SelExit(s, "manual_timeout", None, MsgExtractionFailed)

SelStep ==
  UNCHANGED <<keyFile, req, resp, result, idx, started, outcomes, writes, toolKeys,
              probeCause, cli, api, scan, conv, lastSave>>

\* method_2b_selenium_auth lines 145-150 and extract_activation_bytes lines
\* 109-116: the extractor is made, dependencies checked, the driver set up
SelSetup ==
  /\ UNCHANGED auxVars
  /\ pc = "sel_setup"
  /\ \E env \in {"no_selenium", "driver_failed", "ok"} :
       LET debug == IF sel.runs = 0 THEN req.debug ELSE TRUE
           s == [NoSel EXCEPT !.debug = debug, !.runs = sel.runs + 1]
       IN /\ CASE env = "no_selenium" ->
                    /\ sel' = SelExit(s, "no_selenium", None, MsgDeps)
                    /\ pc' = "m2b_ret"
               [] env = "driver_failed" ->
                    /\ sel' = SelExit(s, "no_driver", None, MsgDriver)
                    /\ pc' = "m2b_ret"
               [] OTHER ->
                    /\ sel' = [s EXCEPT !.opened = TRUE]
                    /\ pc' = "sel_nav"
          /\ SelStep

\* lines 161-164: the two navigations; an exception goes to line 282
SelNavigate ==
  /\ UNCHANGED auxVars
  /\ pc = "sel_nav"
  /\ \E ok \in BOOLEAN :
       /\ IF ok
          THEN /\ pc' = "sel_login"
               /\ sel' = sel
          ELSE /\ pc' = "sel_finally"
               /\ sel' = SelExit(sel, "exception", None, MsgExtractionFailed)
       /\ SelStep

\* lines 166-206: the manual login (debug) or the automated one
SelLogin ==
  /\ UNCHANGED auxVars
  /\ pc = "sel_login"
  /\ \E ok \in BOOLEAN :
       /\ IF sel.debug
          THEN IF ok
               THEN /\ pc' = "sel_landing"
                    /\ sel' = sel
               ELSE /\ pc' = "sel_finally"
                    /\ sel' = DebugWaitTimedOut(sel)
          ELSE IF ok
               THEN /\ pc' = "sel_checks"
                    /\ sel' = sel
               ELSE /\ pc' = "sel_finally"
                    /\ sel' = SelExit(sel, "login_automation", None, MsgLoginAutomation)
       /\ SelStep

\* lines 209-220: the checks of the page reached by the automated login
SelChecks ==
  /\ UNCHANGED auxVars
  /\ pc = "sel_checks"
  /\ \E seen \in {"captcha", "two_factor", "signin_error", "clear"}, onToken \in BOOLEAN :
       /\ seen # "clear" => ~onToken
       /\ CASE seen = "captcha" ->
                 /\ sel' = SelExit(sel, "captcha", None, MsgCaptcha)
                 /\ pc' = "sel_finally"
            [] seen = "two_factor" ->
                 /\ sel' = SelExit(sel, "two_factor", None, MsgTwoFactor)
                 /\ pc' = "sel_finally"
            [] seen = "signin_error" ->
                 /\ sel' = SelExit(sel, "bad_credentials", None, MsgLoginFailed)
                 /\ pc' = "sel_finally"
            [] OTHER ->
                 /\ sel' = [sel EXCEPT !.onTokenPage = onToken]
                 /\ pc' = "sel_landing"
       /\ SelStep

\* line 226 reads `current_url`, which only line 210 (under `if not
\* self.debug`) assigns
UrlBound(s) == ~s.debug

\* lines 226-254: the landing page.  `landing` records the key the scan of
\* lines 236-254 has to find on the page the browser is on (None when that is
\* not the player-auth-token page or the page holds none).
SelLanding ==
  /\ UNCHANGED auxVars
  /\ pc = "sel_landing"
  /\ \E page \in Pages, onToken \in BOOLEAN :
       LET hit == LandingScan(page)
           s == [sel EXCEPT !.onTokenPage = onToken,
                            !.landing = IF onToken THEN hit.key ELSE None]
          \* after the automated login line 210 has read the URL
       IN /\ ~sel.debug => onToken = sel.onTokenPage
          /\ ~onToken => page = Page(None, <<>>)
          /\ IF ~UrlBound(sel)
             THEN \* UnboundLocalError, caught at line 282
                  /\ sel' = SelExit(s, "exception", None, MsgExtractionFailed)
                  /\ pc' = "sel_finally"
             ELSE IF s.onTokenPage
             THEN IF hit.key # None
                  THEN /\ sel' = SelExit(s, "success", hit.key, hit.msg)
                       /\ pc' = "sel_finally"
                  ELSE \* `import re` at line 233 has run
                       /\ sel' = [s EXCEPT !.reBound = TRUE]
                       /\ pc' = "sel_library"
             ELSE /\ sel' = s
                  /\ pc' = "sel_library"
          /\ SelStep

\* lines 259-280: the library page; `re` is a local name of the function,
\* bound only by line 233, and every exception here is caught at line 277.
\* `libNavs` counts the calls of driver.get(library_url), `libPage` is the
\* page source read at line 266 (the empty page when the navigation failed).
SelLibrary ==
  /\ UNCHANGED auxVars
  /\ pc = "sel_library"
  /\ \E navOk \in BOOLEAN, page \in Pages :
       LET hit == LibraryScan(page)
           s == [sel EXCEPT !.libNavs = @ + 1, !.libPage = page]
       IN /\ ~navOk => page = Page(None, <<>>)
          /\ IF navOk /\ sel.reBound /\ hit.key # None
             THEN sel' = SelExit(s, "success", hit.key, hit.msg)
             ELSE sel' = SelExit(s, "not_found", None, MsgCouldNot)
          /\ pc' = "sel_finally"
          /\ SelStep

\* lines 285-287: finally
SelFinally ==
  /\ UNCHANGED auxVars
  /\ pc = "sel_finally"
  /\ sel' = IF sel.opened THEN [sel EXCEPT !.quits = @ + 1] ELSE sel
  /\ pc' = "m2b_ret"
  /\ SelStep

\* method_2b_selenium_auth lines 152-172: the result of the extractor
M2bReturn ==
  /\ UNCHANGED auxVars
  /\ pc = "m2b_ret"
  /\ \E answer \in {"y", "n", "eof"} :
       /\ IF Truthy(sel.ret)
          THEN /\ StrategyEnds("selenium", "value", sel.ret)
               /\ sel' = sel
          ELSE IF MentionsChallenge(sel.msg) /\ ~sel.debug /\ answer = "y"
          THEN \* line 164: the method calls itself with debug=True
               /\ pc' = "sel_setup"
               /\ sel' = sel
               /\ UNCHANGED <<keyFile, resp, result, idx, outcomes, writes, lastSave>>
          ELSE \* no retry offered, "n", or input() raised and line 169 caught it
               /\ StrategyEnds("selenium", "value", None)
               /\ sel' = sel
       /\ UNCHANGED <<req, started, toolKeys, probeCause, cli, api, scan, conv>>

----------------------------------------------------------------------------
(* Filesystem-scan strategy: ActivationBytesExtractor.method_3_file_search *)

\* what the patterns of lines 208-212 may match in the files: 8 hex digits in
\* either case
RawMatches == {KLower, Upper(KLower), KUpper}

\* the most matches a scan is given
MaxFound == 2

\* lines 214-218: found_bytes
FoundBytes(matches) == {Upper(m) : m \in {x \in matches : Len(x) = KeyLen}}

\* the orders in which a set may be iterated
Orderings(S) ==
  {f \in [1 .. Cardinality(S) -> S] : \A x \in S : \E i \in DOMAIN f : f[i] = x}

\* lines 178-226 and 236-237: the scan; `location.exists()` at line 189 is
\* outside every try block and raises what the file system reports other than
\* a missing path (PermissionError), which leaves the method
M3Scan ==
  /\ UNCHANGED auxVars
  /\ pc = "m3_scan"
  /\ \E matches \in {m \in SUBSET RawMatches : Cardinality(m) <= MaxFound},
        raised \in BOOLEAN :
       \E order \in Orderings(FoundBytes(matches)) :
         /\ raised => matches = {}
         /\ IF raised
            THEN /\ StrategyEnds("file", "raise", None)
                 /\ scan' = scan
            ELSE IF order = <<>>
            THEN /\ StrategyEnds("file", "value", None)
                 /\ scan' = scan
            ELSE /\ scan' = [found |-> order, pos |-> 1, tests |-> <<>>]
                 /\ pc' = "m3_test"
                 /\ UNCHANGED <<keyFile, resp, result, idx, outcomes, writes, lastSave>>
         /\ UNCHANGED <<req, started, toolKeys, probeCause, cli, api, sel, conv>>

\* method_3_file_search ending with `return None` where line 234 stands
BestGuessNone(found) == None

\* line 234: list(found_bytes)[0]
BestGuess(found) == found[1]

\* lines 228-234: one turn of `for bytes_val in found_bytes`; `tests` records
\* the calls of test_activation_bytes made by the loop and what they returned
M3Test ==
  /\ UNCHANGED auxVars
  /\ pc = "m3_test"
  /\ \E env \in ProbeEnvs :
       LET bytes_val == scan.found[scan.pos]
           ok == ValidatorReturns(env)
           tested == [scan EXCEPT !.tests = Append(@, [key |-> bytes_val, ok |-> ok])]
       IN /\ toolKeys' = toolKeys \cup ProbedKeys(bytes_val, env)
          /\ probeCause' = env
          /\ IF ok
             THEN /\ StrategyEnds("file", "value", bytes_val)
                  /\ scan' = tested
             ELSE IF scan.pos = Len(scan.found)
             THEN /\ StrategyEnds("file", "value", BestGuess(scan.found))
                  /\ scan' = tested
             ELSE /\ scan' = [tested EXCEPT !.pos = @ + 1]
                  /\ UNCHANGED <<pc, keyFile, resp, result, idx, outcomes, writes, lastSave>>
          /\ UNCHANGED <<req, started, cli, api, sel, conv>>

----------------------------------------------------------------------------
(* find_activation_bytes.py, run from the command line                     *)

\* what re.findall may give the scan of the script, in the order of the
\* files and patterns: up to MaxFound matches
MatchSeqs == UNION {[1 .. n -> RawMatches] : n \in 0 .. MaxFound}

\* `match not in found_bytes`
InList(x, list) == \E i \in DOMAIN list : list[i] = x

\* search_for_activation_bytes lines 29 and 59-64: the list found_bytes after
\* the matches, each match compared as it was found and appended in upper case
RECURSIVE SearchForActivationBytes(_, _)
SearchForActivationBytes(found_bytes, matches) ==
  IF matches = <<>> THEN found_bytes
  ELSE LET match == Head(matches)
       IN SearchForActivationBytes(
            IF Len(match) = KeyLen /\ ~InList(match, found_bytes)
            THEN Append(found_bytes, Upper(match))
            ELSE found_bytes,
            Tail(matches))

\* main() lines 142-155: every candidate is tested, the first working one is
\* written to the key file
FirstWorking(tests) ==
  LET working == {i \in DOMAIN tests : tests[i].ok}
  IN IF working = {} THEN None
     ELSE tests[CHOOSE i \in working : \A j \in working : i <= j].key

\* main() of find_activation_bytes.py
FindActivationBytesMain ==
  /\ UNCHANGED auxVars
  /\ Ready
  /\ \E matches \in MatchSeqs :
       LET found_bytes == SearchForActivationBytes(<<>>, matches)
       IN \E envs \in [1 .. Len(found_bytes) -> ProbeEnvs] :
            LET tests == IF found_bytes = <<>> THEN <<>>
                         ELSE [i \in 1 .. Len(found_bytes) |->
                                 [key |-> found_bytes[i], ok |-> ValidatorReturns(envs[i])]]
                saved == FirstWorking(tests)
            IN /\ result' = None
               /\ outcomes' = <<>>
               /\ cli' = NoCli
               /\ api' = NoApi
               /\ sel' = NoSel
               /\ FreshOrch
               /\ scan' = [found |-> found_bytes, pos |-> Len(found_bytes), tests |-> tests]
               /\ toolKeys' = UNION {ProbedKeys(found_bytes[i], envs[i]) :
                                       i \in 1 .. Len(found_bytes)}
               /\ probeCause' = IF found_bytes = <<>> THEN "none"
                                ELSE envs[Len(found_bytes)]
               /\ req' = Request("script", "find_activation_bytes", None)
               /\ resp' = NoResponse
               /\ IF saved # None
                  THEN /\ keyFile' = saved
                       /\ writes' = <<saved>>
                       /\ lastSave' = None
                  ELSE /\ writes' = <<>>
                       /\ UNCHANGED <<keyFile, lastSave>>
               /\ pc' = "done"

----------------------------------------------------------------------------
(* Manual prompt: ActivationBytesExtractor.method_4_browser_extraction     *)

\* lines 259-266: the key the prompt accepts
PromptAccepts(activation_bytes) == Truthy(activation_bytes) /\ Len(activation_bytes) = KeyLen

\* lines 257-268; input() raises EOFError without a terminal and
\* KeyboardInterrupt on Ctrl-C
M4Prompt ==
  /\ UNCHANGED auxVars
  /\ pc = "m4_prompt"
  /\ \E answer \in {"eof", "interrupt", "n", "y"}, typed \in TypedInputs, env \in ProbeEnvs :
       LET activation_bytes == Strip(typed)
           tested == answer = "y" /\ PromptAccepts(activation_bytes)
          \* nothing is typed unless the answer was "y", nothing probed
          \* unless the typed key was taken
       IN /\ answer # "y" => typed = EmptyStr
          /\ ~tested => env = "no_aax"
          /\ toolKeys' = IF tested THEN toolKeys \cup ProbedKeys(activation_bytes, env)
                         ELSE toolKeys
          /\ probeCause' = IF tested THEN env ELSE probeCause
          /\ CASE answer = "eof" -> StrategyEnds("manual", "raise", None)
               [] answer = "interrupt" -> StrategyEnds("manual", "interrupt", None)
               [] answer = "n" -> StrategyEnds("manual", "value", None)
               [] OTHER -> StrategyEnds("manual", "value",
                             IF tested THEN Upper(activation_bytes) ELSE None)
          /\ UNCHANGED <<req, started, cli, api, sel, scan, conv>>

----------------------------------------------------------------------------
(* Upload and conversion: app.py upload_file, convert_audible_file         *)

\* the directory removed at the end of the try block only, not in a finally
\* clause: what an exception leaves behind stays
RemovedAfterReturn(c, outcome) == [c EXCEPT !.tmp = (outcome = "raised")]

\* upload_file lines 454-461 and chunk_file lines 612-616: the finally clause
\* removes the temporary directory, whether the try block returned or raised
Finally(c, outcome) == [c EXCEPT !.tmp = FALSE]

\* the file part of an upload: absent, unnamed, or named
UploadFiles == {"<absent>", "", "book.aax", "book.aa", "notes.txt"}

\* the form field activation_bytes of an upload: left out (line 397 gives ''),
\* a key, or a text that is no key
UploadKeys == {EmptyStr, KUpper, KSeven}

\* allowed_file
AllowedFile(f) == f \in {"book.aax", "book.aa"}

\* input_file.lower().endswith('.aax')
IsAax(f) == f = "book.aax"

\* lines 117-118 and 266-267: the -activation_bytes argument of an ffmpeg run
FfmpegKeys(f, key) == IF Truthy(key) /\ IsAax(f) THEN {key} ELSE {}

\* the fallback strategies of _convert_with_fallback_method
FallbackCount == 4

UploadFailed == Response(500, FALSE, None, "All conversion methods failed")
UploadDone == Response(200, TRUE, None, "File converted successfully")

\* how an ffmpeg run of a conversion may end: as any child process, or with
\* TimeoutExpired after the 900 seconds of lines 139 and 285
ConvEnds == ProcEnds \cup {"timeout"}

\* lines 142 and 288 with no exit status taken for a success
ConvertedNever(end) == FALSE

\* lines 142 and 288: the exit status 0 of an ffmpeg run ends the conversion
Converted(end) == end = "exit0"

\* one ffmpeg run of a conversion, for the record of the request: which
\* method made it (and which entry of fallback_strategies, 0 for the standard
\* method) and whether it converted, failed or ran out of time
ConvCall(method, strategy, end) ==
  [method |-> method, strategy |-> strategy,
   outcome |-> CASE end = "exit0" -> "converted"
                 [] end = "timeout" -> "timeout"
                 [] OTHER -> "failed"]

ConvStep ==
  UNCHANGED <<keyFile, req, result, idx, started, outcomes, writes, probeCause, cli, api,
              sel, scan, lastSave>>

\* upload_file lines 389-417: the checks, the temporary directory, the saved upload
UploadRequest ==
  /\ UNCHANGED auxVars
  /\ Ready
  /\ \E f \in UploadFiles, key \in UploadKeys :
       /\ FreshFlow
       /\ idx' = 0
       /\ started' = <<>>
       /\ writes' = <<>>
       /\ toolKeys' = {}
       /\ probeCause' = "none"
       /\ req' = [Request("upload", "", key) EXCEPT !.file = f]
       /\ IF f = "<absent>"
          THEN /\ resp' = Response(400, FALSE, None, "No file provided")
               /\ pc' = "done"
               /\ conv' = NoConv
          ELSE IF f = ""
          THEN /\ resp' = Response(400, FALSE, None, "No file selected")
               /\ pc' = "done"
               /\ conv' = NoConv
          ELSE IF ~AllowedFile(f)
          THEN /\ resp' = Response(400, FALSE, None, "Invalid file type")
               /\ pc' = "done"
               /\ conv' = NoConv
          ELSE /\ resp' = NoResponse
               /\ pc' = "conv_std"
               /\ conv' = [NoConv EXCEPT !.tmp = TRUE, !.made = TRUE]
       /\ UNCHANGED <<keyFile, lastSave>>

\* _convert_with_standard_method, and the end of upload_file when it succeeds
\* (lines 429-461: the output is moved, the answer built, the directory removed)
ConvertStandard ==
  /\ UNCHANGED auxVars
  /\ pc = "conv_std"
  /\ \E env \in {"unavailable"} \cup ConvEnds :
       /\ IF env = "unavailable"
          THEN /\ conv' = conv
               /\ toolKeys' = toolKeys
               /\ pc' = "conv_fb"
               /\ resp' = resp
          ELSE /\ toolKeys' = toolKeys \cup FfmpegKeys(req.file, req.key)
               /\ IF Converted(env)
                  THEN /\ conv' = Finally([conv EXCEPT !.calls =
                                                 Append(@, ConvCall("standard", 0, env))],
                                        "returned")
                       /\ resp' = UploadDone
                       /\ pc' = "done"
                  ELSE \* line 88 catches whatever left the standard method,
                       \* TimeoutExpired included
                       /\ conv' = [conv EXCEPT !.calls = Append(@, ConvCall("standard", 0, env)),
                                              !.timedOut = (env = "timeout")]
                       /\ resp' = resp
                       /\ pc' = "conv_fb"
       /\ ConvStep

\* _convert_with_fallback_method: the availability check (lines 225-227), then
\* one turn of `for strategy in fallback_strategies` per step; upload_file
\* answers when the conversion returned or raised
ConvertFallback ==
  /\ UNCHANGED auxVars
  /\ pc = "conv_fb"
  /\ \E env \in {"unavailable"} \cup ConvEnds :
       /\ env = "unavailable" <=> conv.fb = 0
       /\ IF env = "unavailable"
          THEN \E available \in BOOLEAN :
                 IF available
                 THEN /\ conv' = [conv EXCEPT !.fb = 1]
                      /\ UNCHANGED <<pc, resp, toolKeys>>
                 ELSE /\ conv' = Finally(conv, "raised")
                      /\ resp' = UploadFailed
                      /\ pc' = "done"
                      /\ toolKeys' = toolKeys
          ELSE /\ toolKeys' = toolKeys \cup FfmpegKeys(req.file, req.key)
               /\ IF Converted(env)
                  THEN /\ conv' = Finally([conv EXCEPT !.calls =
                                                 Append(@, ConvCall("fallback", conv.fb, env))],
                                        "returned")
                       /\ resp' = UploadDone
                       /\ pc' = "done"
                  ELSE IF conv.fb = FallbackCount
                  THEN /\ conv' = Finally([conv EXCEPT !.calls =
                                                 Append(@, ConvCall("fallback", conv.fb, env)),
                                               !.timedOut = @ \/ env = "timeout"],
                                        "raised")
                       /\ resp' = UploadFailed
                       /\ pc' = "done"
                  ELSE /\ conv' = [conv EXCEPT !.calls = Append(@, ConvCall("fallback", conv.fb, env)),
                                              !.timedOut = @ \/ env = "timeout", !.fb = @ + 1]
                       /\ UNCHANGED <<pc, resp>>
       /\ ConvStep

----------------------------------------------------------------------------
(* Chunking: app.py chunk_file, split_audio_file                           *)

MAX_CHUNK_SIZE_MB == 24

\* line 326: min_chunk_duration_seconds
MinChunkDuration == 60

\* the files a chunking request may name: size in MB and duration in seconds
FileSizesMB == {12, 24, 25, 60, 100}
DurationsSec == {30, 90, 600, 1800}

\* Durations are kept as multiples of 1/file_size_mb seconds, so that line 323,
\* (max_size_mb / file_size_mb) * total_duration_seconds, is a whole number:
\* a duration of d seconds is the number d * file_size_mb.
TotalDuration(size, seconds) == seconds * size

\* lines 323-327: chunk_duration_seconds
ChunkDuration(size, seconds) ==
  LET computed == MAX_CHUNK_SIZE_MB * seconds
      floor == MinChunkDuration * size
  IN IF computed >= floor THEN computed ELSE floor

\* line 337 without min(): the chunk is not cut at the end of the file
EndTimeUncut(start, step, total) == start + step

\* line 337: end_time
EndTime(start, step, total) == IF start + step <= total THEN start + step ELSE total

ChunkFailed == Response(500, FALSE, None, "Audio splitting failed")
ChunkDone == Response(200, TRUE, None, "File chunked successfully")

ChunkStep ==
  UNCHANGED <<keyFile, req, result, idx, started, outcomes, writes, toolKeys, probeCause,
              cli, api, sel, scan, conv, lastSave, workers, outputDir>>

\* chunk_file lines 573-587: the checks and the temporary directory
ChunkRequest ==
  /\ Ready
  /\ \E filename \in {"<absent>", "missing.mp3", "book.mp3"} :
       /\ FreshRequest
       /\ req' = [Request("chunk", "", None) EXCEPT !.file = filename]
       /\ IF filename = "<absent>"
          THEN /\ resp' = Response(400, FALSE, None, "filename required")
               /\ pc' = "done"
               /\ split' = NoSplit
          ELSE IF filename = "missing.mp3"
          THEN /\ resp' = Response(404, FALSE, None, "File not found")
               /\ pc' = "done"
               /\ split' = NoSplit
          ELSE /\ resp' = NoResponse
               /\ pc' = "split_probe"
               /\ split' = [NoSplit EXCEPT !.tmp = TRUE, !.made = TRUE]
       /\ UNCHANGED <<keyFile, lastSave, workers, outputDir>>

\* split_audio_file lines 317-334: the duration (ffprobe, which may fail), the
\* size, the chunk duration; a failure leaves as an exception, chunk_file
\* removes the directory (lines 612-616) and answers 500 (lines 618-620)
SplitProbe ==
  /\ pc = "split_probe"
  /\ \E probed \in BOOLEAN, size \in FileSizesMB, seconds \in DurationsSec :
       /\ IF probed
          THEN /\ split' = [split EXCEPT !.size = size,
                                         !.total = TotalDuration(size, seconds),
                                         !.step = ChunkDuration(size, seconds),
                                         !.start = 0]
               /\ pc' = "split_loop"
               /\ resp' = resp
          ELSE /\ split' = Finally(split, "raised")
               /\ resp' = ChunkFailed
               /\ pc' = "done"
       /\ ChunkStep

\* split_audio_file lines 336-362: one turn of `while start_time <
\* total_duration_seconds`, and chunk_file lines 592-616 once it has returned
SplitLoop ==
  /\ pc = "split_loop"
  /\ \E end \in {"exit0", "exit_nonzero"} :
       /\ IF split.start < split.total
          THEN LET end_time == EndTime(split.start, split.step, split.total)
                   duration == end_time - split.start
               IN IF end = "exit0"
                  THEN /\ split' = [split EXCEPT !.chunks = Append(@, duration),
                                                 !.starts = Append(@, split.start),
                                                 !.start = end_time]
                       /\ UNCHANGED <<pc, resp>>
                  ELSE /\ split' = Finally(split, "raised")
                       /\ resp' = ChunkFailed
                       /\ pc' = "done"
          ELSE /\ end = "exit0"
               /\ split' = Finally(split, "returned")
               /\ resp' = ChunkDone
               /\ pc' = "done"
       /\ ChunkStep

----------------------------------------------------------------------------
(* Uploads handled side by side: app.py upload_file, lines 408-461, as run  *)
(* by the threads of the server                                            *)

UploadsStep ==
  UNCHANGED <<keyFile, pc, req, resp, result, idx, started, outcomes, writes, toolKeys,
              probeCause, cli, api, sel, scan, conv, lastSave, split>>

\* tempfile.mkdtemp: the directories in use
DirsInUse == {workers[v].tmp : v \in Uploads} \ {0}

\* lines 408-422: the temporary directory (mkdtemp never gives a name in
\* use), the upload saved into it, the output format
UpStart(w) ==
  \E f \in UploadNames, fmt \in Formats, dir \in Uploads \ DirsInUse :
    /\ workers[w].pc = "idle"
    /\ workers' = [workers EXCEPT ![w] =
                     [NoWorker EXCEPT !.pc = "convert", !.file = f, !.fmt = fmt,
                                      !.tmp = dir]]
    /\ UNCHANGED outputDir
    /\ UploadsStep

\* line 426: convert_audible_file writes its output into the temporary
\* directory, or raises; then lines 451-461 answer 500 and remove the directory
UpConvert(w) ==
  \E ok \in BOOLEAN :
    /\ workers[w].pc = "convert"
    /\ workers' = [workers EXCEPT ![w] =
                     IF ok THEN [@ EXCEPT !.pc = "move"]
                     ELSE [@ EXCEPT !.pc = "done", !.tmp = 0]]
    /\ UNCHANGED outputDir
    /\ UploadsStep

\* lines 429-434: shutil.move(temp_output, final_path) puts the output under
\* its final name in the output folder, in place of any file of that name
UpMove(w) ==
  LET final == FinalName(workers[w].file, workers[w].fmt)
  IN /\ workers[w].pc = "move"
     /\ outputDir' = [outputDir EXCEPT ![final] = w]
     /\ workers' = [workers EXCEPT ![w] = [@ EXCEPT !.pc = "respond", !.final = final]]
     /\ UploadsStep

\* lines 436-461: the answer with its download_url, and the directory removed
UpRespond(w) ==
  /\ workers[w].pc = "respond"
  /\ workers' = [workers EXCEPT ![w] =
                   [@ EXCEPT !.pc = "done", !.url = workers[w].final, !.tmp = 0]]
  /\ UNCHANGED outputDir
  /\ UploadsStep

NextUploads ==
  \E w \in Uploads :
    \/ UpStart(w)
    \/ UpConvert(w)
    \/ UpMove(w)
    \/ UpRespond(w)

SpecUploads == Init /\ [][NextUploads]_vars

----------------------------------------------------------------------------
(* The system                                                              *)

Next ==
  \/ Served
  \/ SaveRequest
  \/ LoadRequest
  \/ TestRequest
  \/ GetActivationBytesMain
  \/ FindActivationBytesMain
  \/ ExtractRequest
  \/ ManualEntryRequest
  \/ OrchNext
  \/ M1Probe
  \/ M1Get
  \/ M1Parse
  \/ M2Login
  \/ M2Profile
  \/ M2Library
  \/ M2Return
  \/ SelSetup
  \/ SelNavigate
  \/ SelLogin
  \/ SelChecks
  \/ SelLanding
  \/ SelLibrary
  \/ SelFinally
  \/ M2bReturn
  \/ M3Scan
  \/ M3Test
  \/ M4Prompt
  \/ UploadRequest
  \/ ConvertStandard
  \/ ConvertFallback
  \/ ChunkRequest
  \/ SplitProbe
  \/ SplitLoop

Spec == Init /\ [][Next]_vars

\* The chunking endpoint alone.  A request is served by one thread that runs
\* split_audio_file to its end: each turn of its loop is taken once the
\* ffmpeg run of the turn before has returned.
NextChunk ==
  \/ Served
  \/ ChunkRequest
  \/ SplitProbe
  \/ SplitLoop

SpecChunk == Init /\ [][NextChunk]_vars /\ WF_vars(SplitLoop)

----------------------------------------------------------------------------
(* Claims                                                                  *)

PosInOrder(name) == CHOOSE i \in DOMAIN Order : Order[i] = name
ReturnedKey(o) == o.kind = "value" /\ Truthy(o.val)

\* C1: in auto mode the strategies are started in the order cli, auth,
\* selenium, file, manual; one is started only after all earlier ones ended
\* without a key; once one returns a key no later one is started and that key
\* is the result of the orchestrator.
C1_FixedOrderShortCircuit ==
  req.via = "auto" =>
    /\ \A i, j \in DOMAIN started : i < j => PosInOrder(started[i]) < PosInOrder(started[j])
    /\ Len(outcomes) <= Len(started) /\ Len(started) <= Len(outcomes) + 1
    /\ \A i \in DOMAIN outcomes : outcomes[i].name = started[i]
    /\ \A i \in DOMAIN outcomes :
         ReturnedKey(outcomes[i]) =>
           /\ i = Len(started)
           /\ pc = "done"
           /\ result = outcomes[i].val
           /\ resp.success /\ resp.key = outcomes[i].val

\* C1 witness: the fourth strategy started (file scan) returned the key that
\* the orchestrator returned, two earlier ones having ended without one
C1_Witness ==
  /\ pc = "done" /\ req.via = "auto"
  /\ Len(started) >= 3 /\ started[Len(started)] = "file"
  /\ Len(outcomes) = Len(started) /\ ReturnedKey(outcomes[Len(outcomes)])
  /\ result = outcomes[Len(outcomes)].val

\* C2: a key returned by a discovery request (auto mode or explicit selector)
\* has been written to the key file before the response.
C2_ReturnedKeyWasSaved ==
  (pc = "done" /\ req.endpoint = "extract" /\ resp.success) =>
    /\ keyFile = resp.key
    /\ \E i \in DOMAIN writes : writes[i] = resp.key

\* C3: the key file, when it exists, holds exactly 8 upper-case hex digits.
C3_KeyFileIsNormalisedKey == keyFile # NoFile => IsUpperHexKey(keyFile)

\* C4: every key in a successful response of the discovery endpoint or of the
\* load endpoint is 8 upper-case hex digits.
C4_ReturnedKeyIsNormalised ==
  (pc = "done" /\ req.endpoint \in {"extract", "load"} /\ resp.success) =>
    IsUpperHexKey(resp.key)

\* C5: a candidate of the wrong length or with a non-hex character is rejected
\* by the test endpoint, the manual-entry branch and the upload path, and
\* ffprobe/ffmpeg are never run with such a candidate as key.
C5_InvalidCandidateRejected ==
  /\ \A k \in toolKeys : IsValidKey(k)
  /\ (/\ pc = "done"
      /\ \/ req.endpoint = "test"
         \/ req.endpoint = "extract" /\ req.method = "manual"
         \/ req.endpoint = "upload" /\ Truthy(req.key)
      /\ ~IsValidKey(req.key))
     => resp.status = 400 /\ ~resp.success

\* C6: after a successful save of a valid key k, a load with no write in
\* between returns uppercase(k); of two saves the later one is what is loaded.
C6_SaveLoadRoundTrip ==
  (pc = "done" /\ req.endpoint = "load" /\ IsValidKey(lastSave)) =>
    /\ resp.status = 200 /\ resp.success
    /\ resp.key = Upper(lastSave)

\* C6 witness: a lower-case key was saved over an earlier content of the file
\* and the load returned it in upper case
C6_Witness ==
  /\ pc = "done" /\ req.endpoint = "load"
  /\ lastSave = KLower /\ lastSave # resp.key
  /\ resp.success /\ resp.key = Upper(KLower)

\* C7: a save request whose key is missing or not exactly 8 characters long is
\* answered with a format error and leaves the key file as it was.
C7_RejectedSaveKeepsFile ==
  [][(/\ pc = "idle" /\ pc' = "done" /\ req'.endpoint = "save"
      /\ (~Truthy(req'.key) \/ Len(req'.key) # KeyLen))
     => /\ keyFile' = keyFile
        /\ writes' = <<>>
        /\ resp'.status = 400 /\ ~resp'.success
        /\ resp'.msg \in {"activation_bytes required",
                          "Activation bytes must be 8 characters long"}]_vars

\* C7 witness: a 7-character key was refused while a key file existed
C7_Witness ==
  /\ pc = "done" /\ req.endpoint = "save" /\ req.key = KSeven
  /\ resp.status = 400 /\ keyFile # NoFile /\ keyFile # EmptyStr

\* C8: the load endpoint returns a key only if the stripped file content is 8
\* characters long; any other length is answered 'invalid', and a missing file
\* is answered 'not found', a different answer.
C8_LoadChecksLength ==
  (pc = "done" /\ req.endpoint = "load") =>
    /\ resp.success =>
         /\ keyFile # NoFile /\ Len(Strip(keyFile)) = KeyLen
         /\ resp.key = Strip(keyFile)
    /\ (keyFile # NoFile /\ Len(Strip(keyFile)) # KeyLen) =>
         /\ ~resp.success /\ resp.status = 400 /\ resp.key = None
         /\ resp.msg = "Invalid activation bytes in file"
    /\ keyFile = NoFile =>
         /\ ~resp.success /\ resp.status = 404 /\ resp.key = None
         /\ resp.msg = "No saved activation bytes found"

\* C8 witness: the file holds a text whose stripped length is not 8 and the
\* load answered 'invalid'
C8_Witness ==
  /\ pc = "done" /\ req.endpoint = "load"
  /\ keyFile # NoFile /\ Len(Strip(keyFile)) # KeyLen
  /\ resp.status = 400

\* the outcome of the validator the specification names for what a run met
ValidatorOutcome(cause) ==
  CASE cause = "exit0" -> "success"
    [] cause = "exit_nonzero" -> "failure"
    [] cause = "no_aax" -> "cannot_verify"
    [] OTHER -> "other"

\* C9: the validator's outcomes success, failure and cannot-verify are told
\* apart by the caller of the test endpoint: two test requests whose validator
\* runs ended in different ones of the three get different answers.
C9_TestAnswersTellOutcomesApart ==
  [][(/\ pc = "done" /\ req.endpoint = "test"
      /\ pc' = "done" /\ req'.endpoint = "test"
      /\ req.key = req'.key
      /\ ValidatorOutcome(probeCause) # "other"
      /\ ValidatorOutcome(probeCause') # "other"
      /\ ValidatorOutcome(probeCause) # ValidatorOutcome(probeCause'))
     => resp # resp']_vars

\* C10: every run of the browser strategy that opened a session has quit it
\* exactly once when it returns, whichever way it left; none is quit twice.
C10_SessionQuitOnce ==
  /\ sel.quits <= 1
  /\ ~sel.opened => sel.quits = 0
  /\ (pc = "m2b_ret" /\ sel.opened) => sel.quits = 1

\* C10 witness: a debug-mode run whose manual-login wait timed out has
\* returned, its session quit once
C10_Witness ==
  /\ pc = "m2b_ret" /\ sel.opened /\ sel.debug
  /\ sel.via = "manual_timeout" /\ sel.quits = 1

\* the strategies after `name` in the order that the request may run
Started(name) == \E i \in DOMAIN started : started[i] = name
Eligible(name) == ~NeedsCredentials(name) \/ HasCredentials(req)
LaterEligible(name) ==
  {i \in DOMAIN Order : i > PosInOrder(name) /\ Eligible(Order[i])}
Least(S) == CHOOSE i \in S : \A j \in S : i <= j

C12_NoCredentialsFallThrough ==
  (req.via = "auto" /\ ~HasCredentials(req)) =>
    /\ ~Started("auth") /\ ~Started("selenium")
    /\ api = NoApi /\ sel = NoSel
    /\ resp.status # 500
    /\ (/\ Len(outcomes) >= 1 /\ outcomes[1].name = "cli"
        /\ CliCmds = <<"version">> /\ pc # "orch")
       => /\ ~ReturnedKey(outcomes[1])
          /\ Len(started) >= 2 /\ started[2] = "file"

\* C12 witness: no credentials, the version probe of the CLI tool failed, and
\* the file scan has run to its end
C12_Witness ==
  /\ req.via = "auto" /\ ~HasCredentials(req)
  /\ CliCmds = <<"version">>
  /\ Len(outcomes) >= 2 /\ outcomes[1].name = "cli" /\ outcomes[2].name = "file"
  /\ outcomes[2].kind = "value"

\* C13: when every strategy of an auto-mode request failed or was skipped,
\* the result is no key, the answer has success false, the error that no
\* method succeeded and a non-empty list of suggestions, and nothing was
\* written to the key file.
C13_AllFailedAnswer ==
  (/\ pc = "done" /\ req.endpoint = "extract" /\ req.via = "auto"
   /\ \A i \in DOMAIN outcomes : ~ReturnedKey(outcomes[i]))
  => /\ result = None
     /\ resp.status = 400 /\ ~resp.success /\ resp.key = None
     /\ resp.msg = "Could not extract activation bytes using any available method"
     /\ resp.suggestions # <<>>
     /\ writes = <<>>

\* C13 witness: with credentials given, all five strategies ran and none
\* returned a key
C13_Witness ==
  /\ pc = "done" /\ req.endpoint = "extract" /\ req.via = "auto"
  /\ Len(outcomes) = Len(Order)
  /\ \A i \in DOMAIN outcomes : ~ReturnedKey(outcomes[i])
  /\ ~resp.success /\ keyFile = NoFile

\* C14: when an upload request or a chunking request has answered, the
\* temporary directory it created is gone, whether its work returned or raised.
C14_TempDirRemoved ==
  /\ (pc = "done" /\ req.endpoint = "upload") => ~conv.tmp
  /\ (pc = "done" /\ req.endpoint = "chunk") => ~split.tmp
  /\ conv.tmp => conv.made /\ req.endpoint = "upload"
  /\ split.tmp => split.made /\ req.endpoint = "chunk"

\* C14 witness: a chunking request made its directory, wrote a chunk, failed on
\* the next one and answered 500 with the directory removed
C14_Witness ==
  /\ pc = "done" /\ req.endpoint = "chunk"
  /\ split.made /\ ~split.tmp
  /\ Len(split.chunks) >= 1 /\ resp = ChunkFailed

\* C15: uploads handled side by side each work in a temporary directory of
\* their own, and the file that an upload has put under its final name in the
\* output folder is still its own output when its answer, which carries the
\* download URL of that name, is built.
C15_UploadsDoNotCollide ==
  /\ \A w, v \in Uploads :
       (w # v /\ workers[w].tmp # 0 /\ workers[v].tmp # 0)
         => workers[w].tmp # workers[v].tmp
  /\ \A w \in Uploads :
       workers[w].pc = "respond" => outputDir[workers[w].final] = w

\* C16: once an ffmpeg run of an upload's conversion has run out of time, no
\* further ffmpeg run is started for that upload, and the answer is a failure
\* other than the one given when the conversions merely failed.
C16_TimeoutEndsConversion ==
  req.endpoint = "upload" =>
    \A i \in DOMAIN conv.calls :
      conv.calls[i].outcome = "timeout" =>
        /\ i = Len(conv.calls)
        /\ pc = "done" => (~resp.success /\ resp # UploadFailed)

\* C17: within one discovery request no strategy is invoked twice: the order
\* of invoked strategies has no repetition and the browser strategy has run
\* its extraction at most once.
C17_NoStrategyRunTwice ==
  req.endpoint = "extract" =>
    /\ \A i, j \in DOMAIN started : i # j => started[i] # started[j]
    /\ sel.runs <= 1

\* C18: an answer that returns a key tells a verified key from an unverified
\* one: of two manual-entry requests with the same key, one whose key the
\* validator confirmed and one whose key it did not, the answers differ.
C18_ConfidenceIsLabelled ==
  [][(/\ pc = "done" /\ req.endpoint = "extract" /\ req.method = "manual"
      /\ pc' = "done" /\ req'.endpoint = "extract" /\ req'.method = "manual"
      /\ resp.success /\ resp'.success /\ resp.key = resp'.key
      /\ (probeCause = "exit0") # (probeCause' = "exit0"))
     => resp # resp']_vars

\* C19: the share of the file that each chunk takes, chunk duration / total
\* duration x file size, is at most the maximum chunk size (durations being
\* counted in 1/file-size seconds, the share in MB of a chunk is its duration
\* over the file's seconds).
C19_ChunkShareBounded ==
  (req.endpoint = "chunk" /\ split.size > 0) =>
    \A i \in DOMAIN split.chunks :
      split.chunks[i] <= MAX_CHUNK_SIZE_MB * (split.total \div split.size)

\* C20: a debug-mode run of the browser strategy in which the manual login was
\* detected and the landing page holds a key returns that key.
C20_DebugLandingKeyReturned ==
  (pc = "m2b_ret" /\ sel.debug /\ sel.landing # None) =>
    /\ Truthy(sel.ret) /\ sel.ret = sel.landing
    /\ sel.msg \in {MsgSuccess, MsgPotential}

\* C21: a debug-mode run of the browser strategy whose wait for the manual
\* login timed out returns no key and a failure message that names the
\* manual-login timeout.
C21_ManualTimeoutNamed ==
  (pc = "m2b_ret" /\ sel.debug /\ sel.via = "manual_timeout") =>
    /\ sel.ret = None
    /\ sel.msg = MsgManualTimeout

\* C22: a run of the browser strategy whose landing-page scan gave no key
\* navigates once to the library page and applies to it the two scans of the
\* landing page (the activation_bytes field, then any quoted 8-hex-digit
\* text): a key that either scan finds there is the key returned.
C22_LibraryScannedLikeLanding ==
  (pc = "m2b_ret" /\ sel.via \in {"success", "not_found"} /\ sel.libNavs > 0) =>
    /\ sel.libNavs = 1
    /\ LandingScan(sel.libPage).key # None =>
         /\ sel.ret = LandingScan(sel.libPage).key
         /\ sel.msg = LandingScan(sel.libPage).msg

\* the outcomes of the file scan recorded for the request
FileOutcomes == {i \in DOMAIN outcomes : outcomes[i].name = "file" /\ outcomes[i].kind = "value"}

\* C23: the file scan hands its candidates to the validator one at a time in
\* iteration order; the first one that validates ends the loop and is returned,
\* no later candidate being tested; when none validates, all were tested and
\* one of the candidates found is returned, never no result.
C23_ScanStopsAtFirstValid ==
  req.endpoint = "extract" =>
    /\ Len(scan.tests) <= Len(scan.found)
    /\ \A i \in DOMAIN scan.tests : scan.tests[i].key = scan.found[i]
    /\ \A i \in DOMAIN scan.tests : scan.tests[i].ok => i = Len(scan.tests)
    /\ pc = "m3_test" => \A i \in DOMAIN scan.tests : ~scan.tests[i].ok
    /\ \A o \in FileOutcomes :
         scan.found # <<>> =>
           /\ outcomes[o].val \in {scan.found[i] : i \in DOMAIN scan.found}
           /\ \A i \in DOMAIN scan.tests :
                scan.tests[i].ok => outcomes[o].val = scan.tests[i].key
           /\ (\A i \in DOMAIN scan.tests : ~scan.tests[i].ok)
                => Len(scan.tests) = Len(scan.found)

\* C23 witness: two candidates were found, the first one tested validated and
\* was returned, the second was never handed to the validator
C23_Witness ==
  /\ Len(scan.found) = 2 /\ Len(scan.tests) = 1 /\ scan.tests[1].ok
  /\ \E o \in FileOutcomes : outcomes[o].val = scan.found[1]

\* C24: the candidates collected by a file scan, that of the extractor and that
\* of the finder script, are upper-case texts of 8 characters and no key is
\* among them twice.
C24_CandidatesUniqueUpper ==
  /\ \A i \in DOMAIN scan.found :
       Len(scan.found[i]) = KeyLen /\ scan.found[i] = Upper(scan.found[i])
  /\ \A i, j \in DOMAIN scan.found : i # j => scan.found[i] # scan.found[j]

\* the first 8-hex-digit token of a text, stated by its position
IsFirstToken(s, k) ==
  \E i \in DOMAIN s :
    /\ HexTokenAt(s, i)
    /\ k = SubSeq(s, i, i + KeyLen - 1)
    /\ \A j \in 1 .. (i - 1) : ~HexTokenAt(s, j)

\* C25: the CLI strategy runs the availability probe first and the retrieval
\* command only after the probe ended with status 0; it returns a key only if
\* the retrieval ended with status 0 and printed an 8-hex-digit token, and
\* that key is the first such token in upper case.
C25_CliProbeThenKey ==
  [][/\ (CliCmds' # CliCmds /\ CliCmds' # <<>>) =>
          \/ pc = "m1_probe" /\ CliCmds = <<>> /\ CliCmds' = <<"version">>
          \/ /\ pc = "m1_get" /\ CliCmds = <<"version">> /\ cli.result.end = "exit0"
             /\ CliCmds' = <<"version", "activation-bytes">>
     /\ (pc \in {"m1_probe", "m1_parse"} /\ pc' \notin {"m1_get", "m1_parse"}) =>
          LET o == outcomes'[Len(outcomes')]
              out == Strip(cli.result.out)
          IN /\ Len(outcomes') = Len(outcomes) + 1
             /\ o.name = "cli" /\ o.kind = "value"
             /\ Truthy(o.val) =>
                  /\ pc = "m1_parse" /\ cli.result.end = "exit0"
                  /\ \E k \in {SubSeq(out, i, i + KeyLen - 1) : i \in 1 .. (Len(out) - KeyLen + 1)} :
                       IsFirstToken(out, k) /\ o.val = Upper(k)
             /\ (/\ pc = "m1_parse" /\ cli.result.end = "exit0"
                 /\ \E i \in DOMAIN out : HexTokenAt(out, i)) => Truthy(o.val)]_vars

\* C25 witness: the probe and the retrieval both ran, the retrieval printed
\* a labelled lower-case key and the strategy returned it in upper case
C25_Witness ==
  /\ pc = "done" /\ req.endpoint = "extract" /\ req.method = "cli"
  /\ CliCmds = <<"version", "activation-bytes">>
  /\ resp.success /\ resp.key = Upper(KLower)

\* C26: after a successful login the account-API strategy looks for the key on
\* the session object, then in the profile reply, then in the library reply;
\* the first place that holds a key gives the value returned and no later
\* remote call is made, and the library call is made whether the profile call
\* failed or answered without a key.
C26_ApiChecksInOrder ==
  /\ \E n \in 0 .. 3 : api.calls = SubSeq(<<"login", "profile", "library">>, 1, n)
  /\ pc = "m2_profile" => api.calls = <<"login">> /\ ~Truthy(api.session)
  /\ pc = "m2_library" =>
       /\ api.calls = <<"login", "profile">>
       /\ ~Truthy(api.session) /\ api.profile.val = None
  /\ pc = "m2_ret" =>
       IF Truthy(api.session)
       THEN api.ret = api.session /\ api.calls = <<"login">>
       ELSE IF api.profile.val # None
       THEN api.ret = api.profile.val /\ api.calls = <<"login", "profile">>
       ELSE /\ api.calls = <<"login", "profile", "library">>
            /\ api.library.called
            /\ api.ret = api.library.val

\* C26 witness: the profile call failed, the library call was made after it
\* and its reply held the key that the strategy is returning
C26_Witness ==
  /\ pc = "m2_ret"
  /\ api.profile.called /\ ~api.profile.ok
  /\ api.calls = <<"login", "profile", "library">>
  /\ Truthy(api.ret) /\ api.ret = api.library.val

\* C27: a manual-entry request of the discovery endpoint with a key of length
\* 8 is answered with that key in upper case, and that text has been written
\* to the key file, whether the validator confirmed the key, rejected it or
\* could not test it.
C27_ManualKeyKeptUnverified ==
  (/\ pc = "done" /\ req.endpoint = "extract" /\ req.method = "manual"
   /\ Truthy(req.key) /\ Len(req.key) = KeyLen)
  => /\ resp.status = 200 /\ resp.success
     /\ resp.key = Upper(req.key)
     /\ keyFile = Upper(req.key)
     /\ writes = <<Upper(req.key)>>

\* C27 witness: a lower-case key that ffprobe rejected was returned in upper
\* case and is in the key file
C27_Witness ==
  /\ pc = "done" /\ req.endpoint = "extract" /\ req.method = "manual"
  /\ req.key = KLower /\ probeCause = "exit_nonzero" /\ toolKeys = {KLower}
  /\ resp.success /\ resp.key = Upper(KLower) /\ keyFile = Upper(KLower)

\* C28: the ffmpeg conversions of one upload are the standard method first
\* and then, each only after all earlier ones failed, the fallback strategies
\* 1 to 4 in that order; a conversion that exits with status 0 is the last one
\* and the upload succeeds; there are at most five; when none converted the
\* upload is answered with an error.
C28_ConversionOrder ==
  req.endpoint = "upload" =>
    LET std == {i \in DOMAIN conv.calls : conv.calls[i].method = "standard"}
    IN /\ std \subseteq {1}
       /\ \A i \in DOMAIN conv.calls \ std :
            /\ conv.calls[i].method = "fallback"
            /\ conv.calls[i].strategy = i - Cardinality(std)
            /\ conv.calls[i].strategy \in 1 .. FallbackCount
       /\ Len(conv.calls) <= 1 + FallbackCount
       /\ \A i \in DOMAIN conv.calls :
            conv.calls[i].outcome = "converted" =>
              i = Len(conv.calls) /\ pc = "done" /\ resp = UploadDone
       /\ (pc = "done" /\ conv.made) =>
            IF \E i \in DOMAIN conv.calls : conv.calls[i].outcome = "converted"
            THEN resp.success
            ELSE resp.status = 500 /\ ~resp.success

\* C28 witness: the standard method and two fallback strategies failed, the
\* third fallback strategy converted the file and the upload succeeded
C28_Witness ==
  /\ pc = "done" /\ req.endpoint = "upload" /\ resp = UploadDone
  /\ Len(conv.calls) = 4 /\ conv.calls[1].method = "standard"
  /\ conv.calls[4].strategy = 3 /\ conv.calls[4].outcome = "converted"
  /\ \A i \in 1 .. 3 : conv.calls[i].outcome # "converted"

\* the chunks written so far lie end to end from the start of the file, none
\* is empty or reaches past the end, all but the last written by a finished
\* loop have the chunk duration, and a finished loop has covered the file
ChunksContiguous ==
  LET n == Len(split.chunks)
      End(i) == split.starts[i] + split.chunks[i]
  IN /\ Len(split.starts) = n
     /\ n >= 1 => split.starts[1] = 0
     /\ \A i \in 1 .. (n - 1) : split.starts[i + 1] = End(i)
     /\ \A i \in 1 .. n : split.chunks[i] > 0 /\ End(i) <= split.total
     /\ \A i \in 1 .. (n - 1) : split.chunks[i] = split.step
     /\ n >= 1 => split.start = End(n)
     /\ pc \in {"split_probe", "split_loop"} /\ split.size > 0 =>
          split.step = ChunkDuration(split.size, split.total \div split.size)
     /\ (pc = "done" /\ resp = ChunkDone) =>
          /\ n >= 1 /\ End(n) = split.total
          /\ split.chunks[n] <= split.step

\* C29: for a file of positive size and duration the chunk loop ends, and its
\* chunks are contiguous, do not overlap and cover the file: the first starts
\* at 0, each starts where the one before ended, the last ends at the total
\* duration, and all but the last have the duration max(60 s, 24 MB / file
\* size x total duration).
C29_ChunkLoopCoversFile ==
  /\ []ChunksContiguous
  /\ (pc = "split_loop") ~> (pc = "done")

\* C29 witness: a file was cut into five chunks, the last shorter than the
\* others, and the request was answered
C29_Witness ==
  /\ pc = "done" /\ resp = ChunkDone
  /\ Len(split.chunks) = 5 /\ split.chunks[5] < split.chunks[1]

\* C30: a discovery request that names a strategy runs no other strategy: with
\* the selector 'auth' or 'selenium' and the email or the password missing, or
\* with a selector that is no known name, none of the other strategies of the
\* orchestrator is started.
C30_SelectorRunsOnlySelected ==
  (req.endpoint = "extract" /\ req.method # "auto") =>
    \A i \in DOMAIN started : started[i] = req.method

====
